---- MODULE Spec2Model ----
(***************************************************************************)
(* Model of src/views/assignment_view.py: the seven route handlers of the  *)
(* assignment router.  One request is followed from its arrival to its     *)
(* response.  A handler suspends at every await, so a request advances by  *)
(* the steps of its handler: the permission gate, the entry log, the       *)
(* service (or repository) call and the translation of the call's outcome  *)
(* into a response.  The service layer, the repository, the permission     *)
(* check and the logger are collaborators outside this file: the service   *)
(* is an environment that may return any value or raise any exception of   *)
(* the taxonomy.                                                           *)
(***************************************************************************)
EXTENDS Integers, Sequences, FiniteSets, TLC

VARIABLES pc, ip, req, events, out, resp, twin

vars == <<pc, ip, req, events, out, resp, twin>>

(* ---------------------------- bounds ---------------------------------- *)

\* longest list (of assignments, of game elements) a service call returns
MaxLen == 2
\* number of distinct stored objects a returned list may mention
NumItems == 2
\* number of distinct exception message texts
NumMsgs == 2

(* ---------------------- identifiers and values ------------------------ *)

\* the UUID rule quoted by the handlers' 400 message
MinUuidLen == 32
MaxUuidLen == 36

\* an identifier string, kept as its length and whether it is all hex
NoArg == [len |-> 0, hex |-> FALSE]
Ids == [len : {MinUuidLen - 1, MinUuidLen, MaxUuidLen + 1}, hex : BOOLEAN]

\* the external UUID validator: 32..36 characters, hex symbols only
UUIDRule(id) == id.len >= MinUuidLen /\ id.len <= MaxUuidLen /\ id.hex

ValidIds == {id \in Ids : UUIDRule(id)}

Msgs == 1..NumMsgs

SeqUpTo(S, n) == UNION {[1..k -> S] : k \in 0..n}

\* python values that cross the service boundary
None == [tag |-> "none", items |-> <<>>, id |-> NoArg]
ListOf(items) == [tag |-> "list", items |-> items, id |-> NoArg]
Obj(id) == [tag |-> "obj", items |-> <<>>, id |-> id]
Pair(id, items) == [tag |-> "pair", items |-> items, id |-> id]

\* python truthiness: None and the empty list are falsy
Truthy(v) == CASE v.tag = "none" -> FALSE
               [] v.tag = "list" -> Len(v.items) > 0
               [] OTHER -> TRUE

(* --------------------------- exceptions ------------------------------- *)

DomainExceptions == {"UUIDValidationException", "CourseNotFoundException",
                     "AssignmentNotFoundException", "AssignmentGameFieldException",
                     "AssignmentPositionError", "AssignmentElementFieldError",
                     "AssignmentException"}

ServiceExceptions == DomainExceptions \cup {"SQLAlchemyError"}

\* the classes imported from exceptions.AssignmentException share its base
AssignmentFamily == {"AssignmentNotFoundException", "AssignmentGameFieldException",
                     "AssignmentPositionError", "AssignmentElementFieldError",
                     "AssignmentException"}

IsInstance(exc, cls) ==
    \/ exc = cls
    \/ cls = "AssignmentException" /\ exc \in AssignmentFamily

\* python's try/except: the first clause, in source order, whose class matches
RECURSIVE Caught(_, _)
Caught(clauses, exc) ==
    IF clauses = <<>> THEN ""
    ELSE IF IsInstance(exc, Head(clauses)) THEN Head(clauses)
    ELSE Caught(Tail(clauses), exc)

(* ---------------------------- responses ------------------------------- *)

HTTPException(status, text, arg, msg) ==
    [kind |-> "HTTPException", status |-> status, text |-> text, arg |-> arg,
     msg |-> msg, body |-> None, exc |-> ""]

Return(status, body) ==
    [kind |-> "return", status |-> status, text |-> "", arg |-> NoArg,
     msg |-> 0, body |-> body, exc |-> ""]

\* an exception that leaves the handler untranslated
Escaped(exc) ==
    [kind |-> "escaped", status |-> 0, text |-> "", arg |-> NoArg,
     msg |-> 0, body |-> None, exc |-> exc]

\* the permission gate or a dependency refused the request
Rejected == [kind |-> "rejected", status |-> 0, text |-> "", arg |-> NoArg,
             msg |-> 0, body |-> None, exc |-> ""]

NoResp == [kind |-> "none", status |-> 0, text |-> "", arg |-> NoArg,
           msg |-> 0, body |-> None, exc |-> ""]

UUID_DETAIL == "UUID of course validation error. UUID should be 32..36 length and UUID must contains only hex symbols."

\* what a handler branch does: the log calls it issues, then its response
Result(logs, r) == [logs |-> logs, resp |-> r]

\* python's  fmt % arg : the conversion specifiers must consume the arguments
PercentFormat(nspec, nargs) == nspec = nargs

\* a log statement whose message is built with %: the TypeError of a failed
\* format is raised before the logger is called
Logged(nspec, nargs, r) ==
    IF PercentFormat(nspec, nargs) THEN Result(<<"log">>, r)
    ELSE Result(<<>>, Escaped("TypeError"))

\* logger.info(args=...): ModuleLoger takes its message by that keyword
LoggedKw(nspec, nargs, r) == Logged(nspec, nargs, r)

(* ------------------------- service outcomes --------------------------- *)

Raise(exc, msg) == [raised |-> TRUE, exc |-> exc, msg |-> msg, value |-> None]
Returns(v) == [raised |-> FALSE, exc |-> "", msg |-> 0, value |-> v]
NoOut == Returns(None)

Handlers == {"get_assignments", "create_assignment", "delete_assignment",
             "get_total_info_assignment", "add_elements", "get_actions",
             "add_actions"}

\* handlers whose service call validates the single UUID of the request
Validating == {"get_assignments", "create_assignment", "delete_assignment",
               "get_total_info_assignment"}

Lists == {ListOf(s) : s \in SeqUpTo(1..NumItems, MaxLen)}

\* the values a call may hand back
ReturnValues(h) ==
    CASE h = "get_assignments" -> Lists \cup {None}
      [] h \in {"create_assignment", "delete_assignment"} ->
            {Obj(id) : id \in ValidIds} \cup {None}
      [] h = "get_total_info_assignment" ->
            {Pair(id, s) : id \in ValidIds, s \in SeqUpTo(1..NumItems, 1)} \cup {None}
      [] OTHER -> Lists \cup {None}

\* what AssignmentsService / AssignmentRepo may do with a request: an
\* ill-formed UUID is refused by the validator before anything else; otherwise
\* the call returns a value or raises any exception of the taxonomy
ServiceOutcomes(h, r) ==
    IF h \in Validating /\ ~UUIDRule(r.id)
    THEN {Raise("UUIDValidationException", m) : m \in Msgs}
    ELSE {Returns(v) : v \in ReturnValues(h)}
         \cup {Raise(e, m) : e \in (IF h \in Validating
                                    THEN ServiceExceptions \ {"UUIDValidationException"}
                                    ELSE ServiceExceptions),
                             m \in Msgs}

\* utils.user_utils.only_teacher: passes exactly for a caller with the teacher role
only_teacher(r) == r.teacher

\* security.access_token_required, a route dependency of GET /assignments/
access_token_required(r) == r.token

(* --------------------------- get_assignments -------------------------- *)

get_assignments_excepts == <<"SQLAlchemyError", "UUIDValidationException">>

\* get_assignments_except answering a storage failure with str(e)
get_assignments_except_RawText(c, r, o) ==
    CASE c = "SQLAlchemyError" ->
            Result(<<"log">>, HTTPException(500, "", NoArg, o.msg))
      [] c = "UUIDValidationException" ->
            Logged(1, 1, HTTPException(400, UUID_DETAIL, NoArg, 0))
      [] OTHER -> Result(<<>>, Escaped(o.exc))

get_assignments_except(c, r, o) ==
    CASE c = "SQLAlchemyError" ->
            Result(<<"log">>, HTTPException(500, "Database error", NoArg, 0))
      [] c = "UUIDValidationException" ->
            Logged(1, 1, HTTPException(400, UUID_DETAIL, NoArg, 0))
      [] OTHER -> Result(<<>>, Escaped(o.exc))

\* get_assignments_else leaving the framework's default status on success
get_assignments_else_200(r, o) ==
    IF Truthy(o.value)
    THEN Logged(2, 2, Return(200, o.value))
    ELSE Logged(1, 1, HTTPException(404, "Assignment not found", NoArg, 0))

get_assignments_else(r, o) ==
    IF Truthy(o.value)
    THEN Logged(2, 2, Return(201, o.value))
    ELSE Logged(1, 1, HTTPException(404, "Assignment not found", NoArg, 0))

get_assignments(r, o) ==
    IF o.raised
    THEN get_assignments_except(Caught(get_assignments_excepts, o.exc), r, o)
    ELSE get_assignments_else(r, o)

(* -------------------------- create_assignment ------------------------- *)

\* create_assignment_excepts without the CourseNotFoundException clause
create_assignment_excepts_NoCourse ==
    <<"UUIDValidationException",
      "AssignmentGameFieldException", "AssignmentPositionError", "SQLAlchemyError">>

create_assignment_excepts ==
    <<"UUIDValidationException", "CourseNotFoundException",
      "AssignmentGameFieldException", "AssignmentPositionError", "SQLAlchemyError">>

create_assignment_except(c, r, o) ==
    CASE c = "UUIDValidationException" ->
            Logged(1, 1, HTTPException(400, UUID_DETAIL, NoArg, 0))
      [] c = "CourseNotFoundException" ->
            Logged(1, 1, HTTPException(400,
                "Course with id {course_id} not found, can't create assignment",
                r.id, 0))
      [] c = "AssignmentGameFieldException" ->
            Result(<<>>, HTTPException(400, "", NoArg, o.msg))
      [] c = "AssignmentPositionError" ->
            Result(<<>>, HTTPException(400, "", NoArg, o.msg))
      [] c = "SQLAlchemyError" ->
            Result(<<"log">>, HTTPException(500, "Database error", NoArg, 0))
      [] OTHER -> Result(<<>>, Escaped(o.exc))

create_assignment_else(r, o) ==
    IF Truthy(o.value)
    THEN Result(<<>>, Return(200, o.value))
    ELSE Logged(1, 1, HTTPException(500, "Internal server error", NoArg, 0))

create_assignment(r, o) ==
    IF o.raised
    THEN create_assignment_except(Caught(create_assignment_excepts, o.exc), r, o)
    ELSE create_assignment_else(r, o)

(* -------------------------- delete_assignment ------------------------- *)

\* delete_assignment_excepts without the UUIDValidationException clause
delete_assignment_excepts_NoUUID ==
    <<"SQLAlchemyError", "AssignmentNotFoundException", "AssignmentException">>

\* delete_assignment_excepts with the generic clause ahead of the specific one
delete_assignment_excepts_GenericFirst ==
    <<"SQLAlchemyError", "UUIDValidationException",
      "AssignmentException", "AssignmentNotFoundException">>

delete_assignment_excepts ==
    <<"SQLAlchemyError", "UUIDValidationException",
      "AssignmentNotFoundException", "AssignmentException">>

delete_assignment_except(c, r, o) ==
    CASE c = "SQLAlchemyError" ->
            Result(<<"log">>, HTTPException(500, "Database error", NoArg, 0))
      [] c = "UUIDValidationException" ->
            LoggedKw(1, 1, HTTPException(400, UUID_DETAIL, NoArg, 0))
      [] c = "AssignmentNotFoundException" ->
            Logged(1, 1, HTTPException(404,
                "Assignment with id {assignment_uuid} not found", r.id, 0))
      [] c = "AssignmentException" ->
            Result(<<"log">>, HTTPException(500, "Internal server error", NoArg, 0))
      [] OTHER -> Result(<<>>, Escaped(o.exc))

\* the falsy branch formats "Failed to delete assignment with uuid" % uuid:
\* no conversion specifier for its one argument
delete_assignment_else(r, o) ==
    IF Truthy(o.value)
    THEN Logged(1, 1, Return(201,
            [tag |-> "detail", items |-> <<>>, id |-> o.value.id]))
    ELSE Logged(0, 1, HTTPException(500, "Internal server error", NoArg, 0))

delete_assignment(r, o) ==
    IF o.raised
    THEN delete_assignment_except(Caught(delete_assignment_excepts, o.exc), r, o)
    ELSE delete_assignment_else(r, o)

(* ---------------------- get_total_info_assignment --------------------- *)

get_total_info_assignment_excepts ==
    <<"SQLAlchemyError", "UUIDValidationException",
      "AssignmentNotFoundException", "AssignmentException">>

get_total_info_assignment_except(c, r, o) ==
    CASE c = "SQLAlchemyError" ->
            Result(<<"log">>, HTTPException(500, "Database error", NoArg, 0))
      [] c = "UUIDValidationException" ->
            LoggedKw(1, 1, HTTPException(400, UUID_DETAIL, NoArg, 0))
      [] c = "AssignmentNotFoundException" ->
            Logged(1, 1, HTTPException(404,
                "Assignment with id {assignment_uuid} not found", r.id, 0))
      [] c = "AssignmentException" ->
            Result(<<"log">>, HTTPException(500, "Internal server error", NoArg, 0))
      [] c = "" /\ o.exc = "HTTPException" ->
            Result(<<>>, HTTPException(404, "Assignment not found", NoArg, 0))
      [] OTHER -> Result(<<>>, Escaped(o.exc))

\* the whole body is inside the try: the 404 of a falsy result is raised
\* there and passes through the except clauses like any other exception
get_total_info_assignment(r, o) ==
    IF ~o.raised /\ Truthy(o.value)
    THEN Result(<<>>, Return(200, o.value))
    ELSE LET e == IF o.raised THEN o.exc ELSE "HTTPException"
         IN get_total_info_assignment_except(
                Caught(get_total_info_assignment_excepts, e), r,
                [o EXCEPT !.exc = e])

(* ------------------ add_elements, get_actions, add_actions ------------ *)

add_elements_excepts == <<"AssignmentElementFieldError">>

add_elements(r, o) ==
    IF o.raised
    THEN IF Caught(add_elements_excepts, o.exc) = "AssignmentElementFieldError"
         THEN Result(<<>>, HTTPException(400,
                "You cannot add this elements. Some of them go beyond the limits of the playing field or are placed on already occupied squares. Or assignment doesn't exist.",
                NoArg, 0))
         ELSE Result(<<>>, Escaped(o.exc))
    ELSE Result(<<>>, Return(200, o.value))

get_actions(r, o) ==
    IF o.raised THEN Result(<<>>, Escaped(o.exc))
    ELSE Result(<<>>, Return(200, o.value))

add_actions(r, o) ==
    IF o.raised THEN Result(<<>>, Escaped(o.exc))
    ELSE Result(<<>>, Return(200, o.value))

\* the router: the handler registered for the request's route
Handle(r, o) ==
    CASE r.handler = "get_assignments" -> get_assignments(r, o)
      [] r.handler = "create_assignment" -> create_assignment(r, o)
      [] r.handler = "delete_assignment" -> delete_assignment(r, o)
      [] r.handler = "get_total_info_assignment" -> get_total_info_assignment(r, o)
      [] r.handler = "add_elements" -> add_elements(r, o)
      [] r.handler = "get_actions" -> get_actions(r, o)
      [] OTHER -> add_actions(r, o)

\* Body with create_assignment calling the service before the permission gate
Body_ServiceBeforeGate(h) ==
    CASE h = "get_assignments" -> <<"log_try", "service", "respond">>
      [] h = "create_assignment" -> <<"log_try", "service", "only_teacher", "respond">>
      [] h = "delete_assignment" -> <<"only_teacher", "log_try", "service", "respond">>
      [] OTHER -> <<"service", "respond">>

\* Body with delete_assignment missing its entry log
Body_NoEntryLog(h) ==
    CASE h = "get_assignments" -> <<"log_try", "service", "respond">>
      [] h = "create_assignment" -> <<"only_teacher", "log_try", "service", "respond">>
      [] h = "delete_assignment" -> <<"only_teacher", "service", "respond">>
      [] OTHER -> <<"service", "respond">>

\* the statements of each handler up to its response, in source order
Body(h) ==
    CASE h = "get_assignments" -> <<"log_try", "service", "respond">>
      [] h = "create_assignment" -> <<"only_teacher", "log_try", "service", "respond">>
      [] h = "delete_assignment" -> <<"only_teacher", "log_try", "service", "respond">>
      [] OTHER -> <<"service", "respond">>

(* ------------------------------ state --------------------------------- *)

NoReq == [handler |-> "none", id |-> NoArg, teacher |-> FALSE, token |-> FALSE]
NoTwin == [alt |-> 0, resp |-> NoResp]

Init ==
    /\ pc = "idle"
    /\ ip = 0
    /\ req = NoReq
    /\ events = <<>>
    /\ out = NoOut
    /\ resp = NoResp
    /\ twin = NoTwin

\* a request arrives: its route, the identifier it carries, the caller's role
\* and whether the caller presents a valid access token
Request ==
    /\ pc = "idle"
    /\ \E h \in Handlers, id \in Ids, t \in BOOLEAN, k \in BOOLEAN :
          req' = [handler |-> h, id |-> id, teacher |-> t, token |-> k]
    /\ pc' = "deps"
    /\ UNCHANGED <<ip, events, out, resp, twin>>

\* the framework resolves the route's dependencies before the handler runs
ResolveDependencies ==
    /\ pc = "deps"
    /\ IF req.handler = "get_assignments" /\ ~access_token_required(req)
       THEN /\ pc' = "done"
            /\ resp' = Rejected
            /\ ip' = ip
       ELSE /\ pc' = "run"
            /\ ip' = 1
            /\ resp' = resp
    /\ UNCHANGED <<req, events, out, twin>>

Stmt == IF pc = "run" THEN Body(req.handler)[ip] ELSE "none"

\* await only_teacher(request)
OnlyTeacher ==
    /\ Stmt = "only_teacher"
    /\ IF only_teacher(req)
       THEN /\ events' = Append(events, "only_teacher_passed")
            /\ ip' = ip + 1
            /\ pc' = pc
            /\ resp' = resp
       ELSE /\ events' = Append(events, "only_teacher_raised")
            /\ pc' = "done"
            /\ resp' = Rejected
            /\ ip' = ip
    /\ UNCHANGED <<req, out, twin>>

\* logger.info("Try to ... %s" % x), the first statement of the try block
LogTry ==
    /\ Stmt = "log_try"
    /\ events' = Append(events, "log_try")
    /\ ip' = ip + 1
    /\ UNCHANGED <<pc, req, out, resp, twin>>

\* await AssignmentsService.xxx(...) / AssignmentRepo.xxx(...)
CallService ==
    /\ Stmt = "service"
    /\ events' = Append(events, "service")
    /\ out' \in ServiceOutcomes(req.handler, req)
    /\ ip' = ip + 1
    /\ UNCHANGED <<pc, req, resp, twin>>

\* the except clauses and the statements after the try block.  twin is the
\* response the same request gets when the same exception carries another text
Respond ==
    /\ Stmt = "respond"
    /\ \E alt \in Msgs :
          /\ resp' = Handle(req, out).resp
          /\ events' = events \o Handle(req, out).logs \o <<"response">>
          /\ twin' = [alt |-> IF out.raised THEN alt ELSE 0,
                      resp |-> Handle(req, IF out.raised
                                           THEN [out EXCEPT !.msg = alt]
                                           ELSE out).resp]
    /\ pc' = "done"
    /\ UNCHANGED <<ip, req, out>>

\* the request is over; handlers keep no state between requests
Finish ==
    /\ pc = "done"
    /\ pc' = "idle"
    /\ ip' = 0
    /\ req' = NoReq
    /\ events' = <<>>
    /\ out' = NoOut
    /\ resp' = NoResp
    /\ twin' = NoTwin

Next ==
    \/ Request
    \/ ResolveDependencies
    \/ OnlyTeacher
    \/ LogTry
    \/ CallService
    \/ Respond
    \/ Finish

Spec == Init /\ [][Next]_vars

(* ------------------------------ helpers -------------------------------- *)

Has(e) == \E i \in 1..Len(events) : events[i] = e

\* the service call was made and the handler's run is over
Called == pc = "done" /\ Has("service")

ByHandler == resp.kind \in {"return", "HTTPException"}

TypeOK ==
    /\ pc \in {"idle", "deps", "run", "done"}
    /\ ip \in 0..4
    /\ req.handler \in Handlers \cup {"none"}
    /\ resp.kind \in {"none", "return", "HTTPException", "escaped", "rejected"}

(* ------------------------------- claims -------------------------------- *)

Gated == {"create_assignment", "delete_assignment"}

\* C1: in create_assignment and delete_assignment the service is called only
\* after only_teacher has returned, and never when only_teacher raised.
C1_GateBeforeService ==
    req.handler \in Gated =>
        /\ \A i \in 1..Len(events) :
              events[i] = "service" =>
                 \E j \in 1..(i - 1) : events[j] = "only_teacher_passed"
        /\ Has("only_teacher_raised") => ~Has("service")
        /\ ~only_teacher(req) => ~Has("service")

C1_Witness ==
    /\ pc = "done"
    /\ req.handler = "create_assignment"
    /\ ~req.teacher
    /\ Has("only_teacher_raised")
    /\ resp = Rejected

Mutating == {"create_assignment", "delete_assignment", "add_elements", "add_actions"}

\* C2: for a caller without the teacher role no mutating service or
\* repository call (create, delete, add_elements, add_actions) is reached.
C2_MutatingTeacherOnly ==
    (req.handler \in Mutating /\ ~req.teacher) => ~Has("service")

\* C3: when get_course_assignments returns, a non-empty list is answered with
\* status 201 and exactly that list, an empty one with 404 "Assignment not
\* found"; nothing else is possible.
C3_ListOutcome ==
    (Called /\ req.handler = "get_assignments" /\ ~out.raised) =>
        IF out.value.tag = "list" /\ Len(out.value.items) > 0
        THEN /\ resp.kind = "return"
             /\ resp.status = 201
             /\ resp.body = out.value
             /\ Len(resp.body.items) = Len(out.value.items)
        ELSE resp = HTTPException(404, "Assignment not found", NoArg, 0)

C3_Witness ==
    /\ Called
    /\ req.handler = "get_assignments"
    /\ resp.kind = "return"
    /\ Len(resp.body.items) = MaxLen

\* C4: in get_assignments, create_assignment, delete_assignment and
\* get_total_info_assignment a UUIDValidationException is answered with 400
\* and the fixed UUID message whatever else the request holds, and every
\* course_uuid failing the UUID rule gets that answer from GET /assignments/.
C4_UuidIs400 ==
    /\ (Called /\ req.handler \in Validating /\ out.raised
          /\ out.exc = "UUIDValidationException")
         => resp = HTTPException(400, UUID_DETAIL, NoArg, 0)
    /\ (Called /\ req.handler = "get_assignments" /\ ~UUIDRule(req.id))
         => resp = HTTPException(400, UUID_DETAIL, NoArg, 0)

C4_Witness ==
    /\ Called
    /\ req.handler = "delete_assignment"
    /\ out.exc = "UUIDValidationException"
    /\ req.id.len = MaxUuidLen + 1
    /\ resp.status = 400

\* C5: delete_assignment by a teacher answers AssignmentNotFoundException
\* with 404, never the 500 of the generic clause, and a returned assignment
\* with 201 and a detail holding that assignment's assignment_id.
C5_DeleteOutcome ==
    (Called /\ req.handler = "delete_assignment") =>
        /\ (out.raised /\ out.exc = "AssignmentNotFoundException") =>
              (resp.kind = "HTTPException" /\ resp.status = 404)
        /\ (~out.raised /\ Truthy(out.value)) =>
              /\ resp.kind = "return"
              /\ resp.status = 201
              /\ resp.body.tag = "detail"
              /\ resp.body.id = out.value.id

C5_Witness ==
    /\ Called
    /\ req.handler = "delete_assignment"
    /\ out.exc = "AssignmentNotFoundException"
    /\ resp.status = 404

\* C6: create_assignment by a teacher answers CourseNotFoundException with
\* 400 and a detail holding the payload's course_id, and returns no assignment.
C6_CourseNotFound ==
    (Called /\ req.handler = "create_assignment" /\ out.raised
       /\ out.exc = "CourseNotFoundException") =>
        /\ resp.kind = "HTTPException"
        /\ resp.status = 400
        /\ resp.arg = req.id
        /\ resp.body = None

C6_Witness ==
    /\ Called
    /\ req.handler = "create_assignment"
    /\ out.exc = "CourseNotFoundException"
    /\ resp.arg = req.id
    /\ req.id \in ValidIds

Translated == {"get_assignments", "create_assignment", "delete_assignment",
               "get_total_info_assignment", "add_elements"}

\* the status column of the translation table
TableStatus(exc) ==
    CASE exc \in {"SQLAlchemyError", "AssignmentException"} -> 500
      [] exc = "AssignmentNotFoundException" -> 404
      [] OTHER -> 400

\* C7: in the five translated handlers every exception of the taxonomy and
\* every storage error raised by the service becomes an HTTPException with
\* the table's status; none escapes.
C7_AllTranslated ==
    (Called /\ req.handler \in Translated /\ out.raised) =>
        /\ resp.kind = "HTTPException"
        /\ resp.status = TableStatus(out.exc)

StrBranches == {"AssignmentGameFieldException", "AssignmentPositionError"}

InStrBranch ==
    /\ req.handler = "create_assignment"
    /\ out.raised
    /\ out.exc \in StrBranches

AnyLog == Has("log_try") \/ Has("log")

\* C9 as stated: no handler reaches a response without a log call before it.
C9_LogEverywhere ==
    (pc = "done" /\ ByHandler) => AnyLog

EntryLogged == {"get_assignments", "create_assignment", "delete_assignment"}

\* the branches that log nothing of their own
SilentBranch ==
    \/ req.handler \in {"add_elements", "get_actions", "add_actions"}
    \/ /\ req.handler = "create_assignment"
       /\ \/ ~out.raised /\ Truthy(out.value)
          \/ InStrBranch
    \/ /\ req.handler = "get_total_info_assignment"
       /\ ~out.raised

\* C9 amended: get_assignments, create_assignment and delete_assignment log
\* before the service call, so each of their responses follows a log call; a
\* log call of the branch itself precedes every response the handlers produce
\* except on create_assignment's success, game-field and position branches,
\* get_total_info_assignment's success and falsy-404 branches and all of
\* add_elements, get_actions and add_actions, which log nothing of their own.
C9_LogWhereCoded ==
    /\ (req.handler \in EntryLogged) =>
          \A i \in 1..Len(events) :
             events[i] \in {"service", "response"} =>
                \E j \in 1..(i - 1) : events[j] = "log_try"
    /\ (pc = "done" /\ ByHandler) =>
          IF SilentBranch
          THEN ~Has("log")
          ELSE \E i \in 1..(Len(events) - 1) :
                  events[i] = "log" /\ events[Len(events)] = "response"
    /\ (pc = "done" /\ ByHandler /\ req.handler \notin EntryLogged /\ SilentBranch)
          => ~AnyLog

C9_Witness ==
    /\ pc = "done"
    /\ req.handler = "delete_assignment"
    /\ resp.kind = "return"
    /\ Has("log_try")
    /\ Has("log")

\* C10: a falsy result without an exception ends in the handler's own
\* response: 500 "Internal server error" from create_assignment and from
\* delete_assignment, 404 "Assignment not found" from
\* get_total_info_assignment; nothing between the test and the raise fails.
C10_FalsyReachesRaise ==
    (Called /\ ~out.raised /\ ~Truthy(out.value)) =>
        /\ req.handler \in {"create_assignment", "delete_assignment"} =>
              resp = HTTPException(500, "Internal server error", NoArg, 0)
        /\ req.handler = "get_total_info_assignment" =>
              resp = HTTPException(404, "Assignment not found", NoArg, 0)

====
